---- MODULE Spec2Model ----
(***************************************************************************)
(* A model of script.js, the script of the portfolio site: the landing     *)
(* page's project grid (loadProjects, renderProjects), the project-detail  *)
(* page (loadProjectDetail) and the contact form (wireContactForm).        *)
(*                                                                         *)
(* JavaScript values are encoded as follows.                               *)
(*   - an optional string field of a record is a sequence of length 0      *)
(*     (the field is absent, i.e. undefined) or 1 (the string);            *)
(*   - a slug, the ?id= parameter and the contact form's fields are        *)
(*     sequences of one-character strings, so that case, white space and   *)
(*     percent-encoding are visible; an optional one is wrapped as above;  *)
(*   - text put into the DOM is a TLA+ string.                             *)
(***************************************************************************)
EXTENDS Integers, Sequences, FiniteSets, TLC

VARIABLES
    page,          \* the document: which mount points and helpers it has
    id,            \* what getParam('id') returns on this page
    resp,          \* how the request for projects.json ends
    catalog,       \* the parsed payload when it is an array
    phase,         \* "loading" before DOMContentLoaded, "ready" after
    pcProjects,    \* position of loadProjects
    pcDetail,      \* position of loadProjectDetail
    fetches,       \* number of fetch('projects.json') calls of each loader
    written,       \* DOM nodes each loader has assigned to
    console,       \* console.warn calls, in order
    grid,          \* children of #project-grid
    gridBefore,    \* the grid's children when renderProjects was last called
    titleEl,       \* text of #project-title
    summaryEl,     \* text of #project-summary
    metaEl,        \* children of #project-meta
    bodyEl,        \* children of #project-body
    galleryEl,     \* children of #project-gallery
    docTitle,      \* document.title
    yearText,      \* text of #year
    headerShadow,  \* .site-header's style.boxShadow
    formWired,     \* the submit listener is attached
    btnDisabled,   \* the submit button's disabled property
    btnLabel,      \* the submit button's textContent
    timers,        \* pending setTimeout callbacks: the label each restores
    alerts,        \* number of alert() calls
    location,      \* window.location.href
    submits,       \* number of submit events handled
    query,         \* the id= value in the location's query, still encoded
    activated      \* index of the card whose activation set the location

vars == <<page, id, resp, catalog, phase, pcProjects, pcDetail, fetches,
          written, console, grid, gridBefore, titleEl, summaryEl, metaEl, bodyEl,
          galleryEl, docTitle, yearText, headerShadow, formWired,
          btnDisabled, btnLabel, timers, alerts, location, submits, query,
          activated>>

loaderVars == <<pcProjects, pcDetail, fetches, written, console, grid, gridBefore,
                titleEl, summaryEl, metaEl, bodyEl, galleryEl, docTitle>>

formVars == <<btnDisabled, btnLabel, timers, alerts, location, submits>>

inputVars == <<page, id, resp, catalog, query, activated>>

(***************************************************************************)
(* Bounds of the model.                                                    *)
(***************************************************************************)
MaxCatalog == 2     \* longest catalog of the resolver inputs
MaxParas == 2       \* longest body array
MaxImages == 2      \* longest images array
MaxSubmits == 3     \* submit events handled in one run

(***************************************************************************)
(* Sequences and strings.                                                  *)
(***************************************************************************)
SeqsUpTo(S, n) == UNION {[1..k -> S] : k \in 0..n}

RECURSIVE Join(_)
\* The string spelled by a sequence of one-character strings.
Join(cs) == IF cs = <<>> THEN "" ELSE Head(cs) \o Join(Tail(cs))

\* The two non-ASCII characters of the script's texts, spelled in ASCII.
Bullet == "[U+2022]"
Ellipsis == "[U+2026]"

\* value || fallback, for an optional string.
Truthy(o) == o # <<>> /\ o[1] # ""
OrElse(o, fallback) == IF Truthy(o) THEN o[1] ELSE fallback
\* `${value}` in a template literal.
Template(o) == IF o = <<>> THEN "undefined" ELSE o[1]

\* The same for an optional sequence of characters (slug, id).
TruthyChars(o) == o # <<>> /\ o[1] # <<>>
OrElseChars(o, fallback) == IF TruthyChars(o) THEN o[1] ELSE fallback

(***************************************************************************)
(* encodeURIComponent: A-Z a-z 0-9 - _ . ! ~ * ' ( ) are kept, every other *)
(* character becomes %XX (the characters of the model are all ASCII).      *)
(***************************************************************************)
Unreserved ==
    {"a", "b", "c", "d", "e", "f", "g", "h", "i", "j", "k", "l", "m", "n",
     "o", "p", "q", "r", "s", "t", "u", "v", "w", "x", "y", "z",
     "A", "B", "C", "D", "E", "F", "G", "H", "I", "J", "K", "L", "M", "N",
     "O", "P", "Q", "R", "S", "T", "U", "V", "W", "X", "Y", "Z",
     "0", "1", "2", "3", "4", "5", "6", "7", "8", "9",
     "-", "_", ".", "!", "~", "*", "'", "(", ")"}

EncodeChar(c) ==
    IF c \in Unreserved THEN <<c>>
    ELSE CASE c = " "  -> <<"%", "2", "0">>
           [] c = "\n" -> <<"%", "0", "A">>
           [] c = "%"  -> <<"%", "2", "5">>
           [] c = "&"  -> <<"%", "2", "6">>
           [] c = ":"  -> <<"%", "3", "A">>
           [] c = "="  -> <<"%", "3", "D">>
           [] c = "?"  -> <<"%", "3", "F">>
           [] c = "@"  -> <<"%", "4", "0">>

RECURSIVE encodeURIComponent(_)
encodeURIComponent(cs) ==
    IF cs = <<>> THEN <<>>
    ELSE EncodeChar(Head(cs)) \o encodeURIComponent(Tail(cs))

(***************************************************************************)
(* Project records, as parsed from projects.json.  An entry of the array   *)
(* is an object (kind "object") or null (kind "null").  body is absent, an *)
(* array of strings, or another value (a string); images is absent, an     *)
(* array, or another value.  An element of images is a string (kept in     *)
(* src), an object with optional src and alt, or null.                      *)
(***************************************************************************)
Blank ==
    [kind |-> "object", title |-> <<>>, description |-> <<>>,
     summary |-> <<>>, slug |-> <<>>, tags |-> <<>>, cover |-> <<>>,
     link |-> <<>>, repo |-> <<>>,
     body |-> [kind |-> "absent", items |-> <<>>],
     bodyHtml |-> <<>>, long |-> <<>>,
     images |-> [kind |-> "absent", items |-> <<>>]]

NullEntry == [Blank EXCEPT !.kind = "null"]

SampleSlug ==
    <<"s", "a", "m", "p", "l", "e", "-", "p", "r", "o", "j", "e", "c", "t">>

\* The demo record loadProjects falls back to.
FallbackProject ==
    [Blank EXCEPT !.title = <<"Sample Project">>,
                  !.description = <<"Replace projects.json to populate real projects.">>,
                  !.slug = <<SampleSlug>>,
                  !.tags = << <<"demo", "starter">> >>,
                  !.cover = <<"">>]

\* What res.json() resolves to.
Payload(r, c) ==
    IF r = "array" THEN [kind |-> "array", items |-> c]
    ELSE [kind |-> "other", items |-> <<>>]

(***************************************************************************)
(* renderProjects: the card built for one record, and the loop.            *)
(***************************************************************************)
\* encodeURIComponent(slug) in go(), slug being p.slug || 'sample-project'.
GoQuery(p) == encodeURIComponent(OrElseChars(p.slug, SampleSlug))

\* The target go() navigates to.
GoTarget(p) == "project.html?id=" \o Join(GoQuery(p))

Card(p) ==
    [ariaLabel |-> "Open " \o Template(p.title) \o " project",
     cover |-> IF Truthy(p.cover)
               THEN <<[src |-> p.cover[1], alt |-> Template(p.title) \o " cover"]>>
               ELSE <<>>,
     title |-> OrElse(p.title, "Untitled"),
     desc |-> OrElse(p.description, "No description yet."),
     tags |-> IF p.tags = <<>> THEN <<>> ELSE p.tags[1],
     go |-> GoTarget(p)]

RECURSIVE AppendCards(_, _)
\* projects.forEach(...): reading p.title of a null entry throws, and the
\* cards appended before it stay in the grid.
AppendCards(g, items) ==
    IF items = <<>> THEN [grid |-> g, threw |-> FALSE]
    ELSE IF Head(items).kind = "null" THEN [grid |-> g, threw |-> TRUE]
    ELSE AppendCards(Append(g, Card(Head(items))), Tail(items))

\* The children are kept.
ClearChildren_Keep(children) == children

\* node.innerHTML = '', given the node's children: none are left.
ClearChildren(children) == SubSeq(children, 1, 0)

\* renderProjects(projects, grid), with g the grid's children before the
\* call: the grid after it, and whether a TypeError was thrown.
renderProjects(projects, g) ==
    LET cleared == ClearChildren(g)
    IN  IF projects.kind = "array"
        THEN AppendCards(cleared, projects.items)
        ELSE [grid |-> cleared, threw |-> TRUE]

(***************************************************************************)
(* loadProjectDetail: the lookup and the parts of the detail view.         *)
(***************************************************************************)
LowerChar(c) ==
    CASE c = "A" -> "a" [] c = "B" -> "b" [] c = "C" -> "c" [] c = "D" -> "d"
      [] OTHER -> c

Lower(cs) == [k \in 1..Len(cs) |-> LowerChar(cs[k])]

\* A comparison that folds case.
SlugMatches_CaseFold(x, i) == Lower(OrElseChars(x.slug, <<>>)) = Lower(i)

\* (x.slug || '') === id
SlugMatches(x, i) == OrElseChars(x.slug, <<>>) = i

RECURSIVE FindFrom(_, _, _)
FindFrom(items, i, k) ==
    IF k > Len(items) THEN [threw |-> FALSE, index |-> 0]
    ELSE IF items[k].kind = "null" THEN [threw |-> TRUE, index |-> 0]
    ELSE IF SlugMatches(items[k], i) THEN [threw |-> FALSE, index |-> k]
    ELSE FindFrom(items, i, k + 1)

\* data.find(x => (x.slug || '') === id): index 0 stands for undefined;
\* threw when data has no find method or the callback reads null.slug.
Find(data, i) ==
    IF data.kind = "array" THEN FindFrom(data.items, i, 1)
    ELSE [threw |-> TRUE, index |-> 0]

\* The title with no fallback.
DetailTitle_NoFallback(p) == Template(p.title)

DetailTitle(p) == OrElse(p.title, "Untitled project")

TabTitle(p) == OrElse(p.title, "Project") \o " " \o Bullet \o " My Portfolio"

DetailSummary(p) ==
    IF Truthy(p.summary) THEN p.summary[1] ELSE OrElse(p.description, "")

MetaLink(href, text) == [kind |-> "a", text |-> text, href |-> href, items |-> <<>>]

MetaNodes(p) ==
    (IF p.tags # <<>> /\ Len(p.tags[1]) > 0
     THEN <<[kind |-> "tags", text |-> "", href |-> "", items |-> p.tags[1]]>>
     ELSE <<>>)
    \o (IF Truthy(p.link) THEN <<MetaLink(p.link[1], "View Live")>> ELSE <<>>)
    \o (IF Truthy(p.repo) THEN <<MetaLink(p.repo[1], "Source Code")>> ELSE <<>>)

Para(text) == [tag |-> "p", text |-> text]

\* The chain with the long and bodyHtml branches in the other order.
BodyNodes_LongFirst(p) ==
    IF p.body.kind = "array" THEN [k \in 1..Len(p.body.items) |-> Para(p.body.items[k])]
    ELSE IF Truthy(p.long) THEN <<Para(p.long[1])>>
    ELSE IF Truthy(p.bodyHtml) THEN <<[tag |-> "html", text |-> p.bodyHtml[1]]>>
    ELSE IF Truthy(p.description) THEN <<Para(p.description[1])>>
    ELSE <<>>

BodyNodes(p) ==
    IF p.body.kind = "array" THEN [k \in 1..Len(p.body.items) |-> Para(p.body.items[k])]
    ELSE IF Truthy(p.bodyHtml) THEN <<[tag |-> "html", text |-> p.bodyHtml[1]]>>
    ELSE IF Truthy(p.long) THEN <<Para(p.long[1])>>
    ELSE IF Truthy(p.description) THEN <<Para(p.description[1])>>
    ELSE <<>>

ImageAlt(p, it) ==
    IF it.kind = "object" /\ Truthy(it.alt) THEN it.alt[1]
    ELSE Template(p.title) \o " image"

\* One pass of imgs.forEach: nothing for an entry without a src.
GalleryEntry(p, it) ==
    LET src == IF it.kind = "null" THEN <<>> ELSE it.src
    IN  IF Truthy(src)
        THEN <<[href |-> src[1], src |-> src[1], alt |-> ImageAlt(p, it)]>>
        ELSE <<>>

RECURSIVE GalleryFrom(_, _)
GalleryFrom(p, imgs) ==
    IF imgs = <<>> THEN <<>>
    ELSE GalleryEntry(p, Head(imgs)) \o GalleryFrom(p, Tail(imgs))

GalleryNodes(p) ==
    GalleryFrom(p, IF p.images.kind = "array" THEN p.images.items ELSE <<>>)

(***************************************************************************)
(* The contact form: trimming, the mailto: target and the button's labels. *)
(***************************************************************************)
WhiteSpace == {" ", "\n"}

RECURSIVE TrimStart(_)
TrimStart(cs) ==
    IF cs # <<>> /\ Head(cs) \in WhiteSpace THEN TrimStart(Tail(cs)) ELSE cs

RECURSIVE TrimEnd(_)
TrimEnd(cs) ==
    IF cs # <<>> /\ cs[Len(cs)] \in WhiteSpace
    THEN TrimEnd(SubSeq(cs, 1, Len(cs) - 1))
    ELSE cs

\* String.prototype.trim
Trim(cs) == TrimEnd(TrimStart(cs))

TO_EMAIL ==
    <<"y", "o", "u", "@", "e", "x", "a", "m", "p", "l", "e", ".", "c", "o", "m">>

SubjectPrefix ==
    <<"P", "o", "r", "t", "f", "o", "l", "i", "o", " ",
      "c", "o", "n", "t", "a", "c", "t", " ", "f", "r", "o", "m", " ">>

MailSubject(name) == SubjectPrefix \o name

\* bodyLines.join('\n')
MailBody(name, email, message) ==
    <<"N", "a", "m", "e", ":", " ">> \o name \o <<"\n">>
    \o <<"E", "m", "a", "i", "l", ":", " ">> \o email \o <<"\n">>
    \o <<"\n">>
    \o <<"M", "e", "s", "s", "a", "g", "e", ":">> \o <<"\n">>
    \o message

Mailto(name, email, message) ==
    "mailto:" \o Join(encodeURIComponent(TO_EMAIL))
    \o "?subject=" \o Join(encodeURIComponent(MailSubject(name)))
    \o "&body=" \o Join(encodeURIComponent(MailBody(name, email, message)))

TempLabel == "Opening your email client" \o Ellipsis

(***************************************************************************)
(* The documents and the inputs of one page load.                          *)
(***************************************************************************)
Loaders == {"loadProjects", "loadProjectDetail"}

\* index.html holds the grid and the contact form; project.html holds the
\* detail article with its five containers and defines getParam.
IndexPage ==
    [name |-> "index.html", hasGrid |-> TRUE, hasArticle |-> FALSE,
     hasForm |-> TRUE, hasGetParam |-> FALSE]

ProjectPage ==
    [name |-> "project.html", hasGrid |-> FALSE, hasArticle |-> TRUE,
     hasForm |-> FALSE, hasGetParam |-> TRUE]

Pages == {IndexPage, ProjectPage}

\* The label the submit button has in the document.
OriginalLabel == "Send"

\* Content the documents hold before the script runs.
StaticText == "static"
StaticCard ==
    [ariaLabel |-> StaticText, cover |-> <<>>, title |-> StaticText,
     desc |-> StaticText, tags |-> <<>>, go |-> StaticText]
StaticMeta == MetaLink(StaticText, StaticText)
StaticPara == Para(StaticText)
StaticImage == [href |-> StaticText, src |-> StaticText, alt |-> StaticText]

\* How the request for projects.json ends: the request is rejected, the
\* status is not 2xx, the payload is not JSON, the payload is JSON but no
\* array, or the payload is an array.
Responses == {"reject", "http_error", "bad_json", "not_array", "array"}

FetchFails(r) == r \in {"reject", "http_error"}
JsonFails(r) == r = "bad_json"

Rec(slug, title) == [Blank EXCEPT !.slug = <<slug>>, !.title = <<title>>]

\* Catalog entries for the lookup: a duplicate slug, a slug differing in
\* case, one with a trailing blank, a record with no fields, and null.
ResolverEntries ==
    {NullEntry, Blank, Rec(<<"a">>, "A"), Rec(<<"a">>, "B"),
     Rec(<<"A">>, "C"), Rec(<<"a", " ">>, "D")}

Ids ==
    {<<>>, << <<>> >>, << <<"a">> >>, << <<"A">> >>, << <<"a", " ">> >>,
     << <<"b">> >>}

OptTexts(t) == {<<>>, <<"">>, <<t>>}

Bodies ==
    {[kind |-> "absent", items |-> <<>>], [kind |-> "other", items |-> <<>>]}
    \cup {[kind |-> "array", items |-> ps] : ps \in SeqsUpTo({"a", "b"}, MaxParas)}

BodyRecords ==
    {[Rec(<<"a">>, "A") EXCEPT !.body = b, !.bodyHtml = h, !.long = l,
                               !.description = d, !.summary = s] :
        b \in Bodies, h \in OptTexts("<b>h</b>"), l \in OptTexts("long"),
        d \in OptTexts("desc"), s \in {<<>>, <<"sum">>}}

ImageEntries ==
    {[kind |-> "null", src |-> <<>>, alt |-> <<>>],
     [kind |-> "string", src |-> <<"x.png">>, alt |-> <<>>],
     [kind |-> "string", src |-> <<"">>, alt |-> <<>>],
     [kind |-> "object", src |-> <<>>, alt |-> <<>>],
     [kind |-> "object", src |-> <<"y.png">>, alt |-> <<>>],
     [kind |-> "object", src |-> <<"y.png">>, alt |-> <<"Y">>]}

Galleries ==
    {[kind |-> "absent", items |-> <<>>], [kind |-> "other", items |-> <<>>]}
    \cup {[kind |-> "array", items |-> is] : is \in SeqsUpTo(ImageEntries, MaxImages)}

GalleryRecords ==
    {[Blank EXCEPT !.slug = << <<"a">> >>, !.title = t, !.images = g] :
        t \in OptTexts("A"), g \in Galleries}

TagLists == {<<>>, << <<>> >>, << <<"t1", "t2">> >>}

MetaRecords ==
    {[Rec(<<"a">>, "A") EXCEPT !.tags = t, !.link = l, !.repo = r] :
        t \in TagLists, l \in {<<>>, <<"live">>}, r \in {<<>>, <<"repo">>}}

CardRecords ==
    {[Blank EXCEPT !.title = t, !.description = d, !.tags = g, !.cover = c,
                   !.slug = s] :
        t \in OptTexts("A"), d \in {<<>>, <<"desc">>}, g \in TagLists,
        c \in OptTexts("c.png"), s \in {<<>>, << <<>> >>, << <<"a", " ">> >>}}

ResolverCatalogs == SeqsUpTo(ResolverEntries, MaxCatalog)

\* A record with no slug next to one whose slug is 'sample-project'.
CollisionCatalogs ==
    {<<Rec(SampleSlug, "S"), [Blank EXCEPT !.title = <<"T">>]>>,
     <<[Blank EXCEPT !.title = <<"T">>], Rec(SampleSlug, "S")>>}

LandingCatalogs ==
    ResolverCatalogs \cup {<<r>> : r \in CardRecords} \cup CollisionCatalogs

DetailCatalogs ==
    ResolverCatalogs
    \cup {<<r>> : r \in BodyRecords \cup GalleryRecords \cup MetaRecords}

\* Raw values of a contact-form field.
FieldInputs == {<<>>, <<" ">>, <<" ", "a", " ">>}

Init ==
    /\ page \in Pages
    /\ resp \in Responses
    /\ catalog \in (IF resp # "array" THEN {<<>>}
                    ELSE IF page.hasGrid THEN LandingCatalogs
                    ELSE DetailCatalogs)
    /\ id \in (IF page.hasGetParam THEN Ids ELSE {<<>>})
    /\ phase = "loading"
    /\ pcProjects = "idle"
    /\ pcDetail = "idle"
    /\ fetches = [l \in Loaders |-> 0]
    /\ written = [l \in Loaders |-> {}]
    /\ console = <<>>
    /\ grid = IF page.hasGrid THEN <<StaticCard>> ELSE <<>>
    /\ gridBefore = <<>>
    /\ titleEl = IF page.hasArticle THEN StaticText ELSE ""
    /\ summaryEl = IF page.hasArticle THEN StaticText ELSE ""
    /\ metaEl = IF page.hasArticle THEN <<StaticMeta>> ELSE <<>>
    /\ bodyEl = IF page.hasArticle THEN <<StaticPara>> ELSE <<>>
    /\ galleryEl = IF page.hasArticle THEN <<StaticImage>> ELSE <<>>
    /\ docTitle = StaticText
    /\ yearText = StaticText
    /\ headerShadow = ""
    /\ formWired = FALSE
    /\ btnDisabled = FALSE
    /\ btnLabel = OriginalLabel
    /\ timers = <<>>
    /\ alerts = 0
    /\ location = page.name
    /\ submits = 0
    /\ query = <<>>
    /\ activated = 0

(***************************************************************************)
(* The DOMContentLoaded handler: setYear, enhanceStickyHeader,             *)
(* wireContactForm, and loadProjects and loadProjectDetail up to their     *)
(* first await.                                                            *)
(***************************************************************************)
\* new Date().getFullYear(), as text.
CurrentYear == "YYYY"

\* typeof getParam === 'function' ? getParam('id') : null
GetId(pg, i) == IF pg.hasGetParam THEN i ELSE <<>>

\* The fetch is issued whether or not the grid exists.
StartProjects_NoGuard(pg) == "fetch"

\* loadProjects up to its await: returns when there is no grid.
StartProjects(pg) == IF pg.hasGrid THEN "fetch" ELSE "skipped"

\* loadProjectDetail up to its await: returns when there is no article,
\* shows the missing-id texts when there is no id.
StartDetail(pg, i) ==
    IF ~pg.hasArticle THEN "skipped"
    ELSE IF ~TruthyChars(GetId(pg, i)) THEN "no_id"
    ELSE "fetch"

NoIdView ==
    [title |-> "Project not specified",
     summary |-> "Missing ?id=" \o Ellipsis \o " in the URL."]

ErrorView ==
    [title |-> "Error loading project",
     summary |-> "Could not fetch projects.json."]

NotFoundView(i) ==
    [title |-> "Project not found",
     summary |-> "No project with id=\"" \o Join(i) \o "\"."]

Wrote(l, els) == written' = [written EXCEPT ![l] = @ \cup els]

DOMContentLoaded ==
    /\ phase = "loading"
    /\ phase' = "ready"
    /\ yearText' = CurrentYear
    /\ headerShadow' = "none"
    /\ formWired' = page.hasForm
    /\ pcProjects' = StartProjects(page)
    /\ pcDetail' = StartDetail(page, id)
    /\ fetches' = [loadProjects |-> IF pcProjects' = "fetch" THEN 1 ELSE 0,
                   loadProjectDetail |-> IF pcDetail' = "fetch" THEN 1 ELSE 0]
    /\ IF pcDetail' = "no_id"
       THEN /\ titleEl' = NoIdView.title
            /\ summaryEl' = NoIdView.summary
            /\ Wrote("loadProjectDetail", {"title", "summary"})
       ELSE UNCHANGED <<titleEl, summaryEl, written>>
    /\ UNCHANGED <<console, grid, gridBefore, metaEl, bodyEl, galleryEl, docTitle>>
    /\ UNCHANGED formVars
    /\ UNCHANGED inputVars

(***************************************************************************)
(* loadProjects after its awaits.                                          *)
(***************************************************************************)
\* A fallback that holds no record.
FallbackProjects_Empty == [kind |-> "array", items |-> <<>>]

\* The catch block's demo data.
FallbackProjects == [kind |-> "array", items |-> <<FallbackProject>>]

\* The catch block, then renderProjects(projects, grid).
ProjectsFallback ==
    LET r == renderProjects(FallbackProjects, grid)
    IN  /\ grid' = r.grid
        /\ gridBefore' = grid
        /\ console' = Append(console, "Using fallback projects:")
        /\ pcProjects' = IF r.threw THEN "threw" ELSE "fallback"
        /\ Wrote("loadProjects", {"grid"})

\* await fetch(...) settles; a rejection or a status that is not ok is caught.
ProjectsFetchSettled ==
    /\ pcProjects = "fetch"
    /\ IF FetchFails(resp)
       THEN ProjectsFallback
       ELSE /\ pcProjects' = "json"
            /\ UNCHANGED <<grid, gridBefore, console, written>>
    /\ UNCHANGED <<pcDetail, fetches, titleEl, summaryEl, metaEl, bodyEl,
                   galleryEl, docTitle>>
    /\ UNCHANGED <<phase, yearText, headerShadow, formWired>>
    /\ UNCHANGED formVars
    /\ UNCHANGED inputVars

\* await res.json() settles; a parse error is caught, any parsed value is
\* handed to renderProjects.
ProjectsJsonSettled ==
    /\ pcProjects = "json"
    /\ IF JsonFails(resp)
       THEN ProjectsFallback
       ELSE LET r == renderProjects(Payload(resp, catalog), grid)
            IN  /\ grid' = r.grid
                /\ gridBefore' = grid
                /\ pcProjects' = IF r.threw THEN "threw" ELSE "rendered"
                /\ Wrote("loadProjects", {"grid"})
                /\ UNCHANGED console
    /\ UNCHANGED <<pcDetail, fetches, titleEl, summaryEl, metaEl, bodyEl,
                   galleryEl, docTitle>>
    /\ UNCHANGED <<phase, yearText, headerShadow, formWired>>
    /\ UNCHANGED formVars
    /\ UNCHANGED inputVars

(***************************************************************************)
(* loadProjectDetail after its awaits.                                     *)
(***************************************************************************)
\* The catch block: the error texts and a warning.
DetailFetchError ==
    /\ titleEl' = ErrorView.title
    /\ summaryEl' = ErrorView.summary
    /\ console' = Append(console, "fetch error")
    /\ pcDetail' = "fetch_error"
    /\ Wrote("loadProjectDetail", {"title", "summary"})
    /\ UNCHANGED <<metaEl, bodyEl, galleryEl, docTitle>>

DetailFetchSettled ==
    /\ pcDetail = "fetch"
    /\ IF FetchFails(resp)
       THEN DetailFetchError
       ELSE /\ pcDetail' = "json"
            /\ UNCHANGED <<titleEl, summaryEl, console, written, metaEl,
                           bodyEl, galleryEl, docTitle>>
    /\ UNCHANGED <<pcProjects, fetches, grid, gridBefore>>
    /\ UNCHANGED <<phase, yearText, headerShadow, formWired>>
    /\ UNCHANGED formVars
    /\ UNCHANGED inputVars

\* What follows the try block: the lookup (outside the try, so its
\* TypeError rejects the promise loadProjectDetail returned), the
\* not-found texts, or the render of the record found.
DetailAfterFetch ==
    LET f == Find(Payload(resp, catalog), id[1])
    IN  IF f.threw
        THEN /\ pcDetail' = "threw"
             /\ UNCHANGED <<titleEl, summaryEl, written, metaEl, bodyEl,
                            galleryEl, docTitle>>
        ELSE IF f.index = 0
        THEN /\ titleEl' = NotFoundView(id[1]).title
             /\ summaryEl' = NotFoundView(id[1]).summary
             /\ pcDetail' = "not_found"
             /\ Wrote("loadProjectDetail", {"title", "summary"})
             /\ UNCHANGED <<metaEl, bodyEl, galleryEl, docTitle>>
        ELSE LET p == catalog[f.index]
             IN  /\ titleEl' = DetailTitle(p)
                 /\ docTitle' = TabTitle(p)
                 /\ summaryEl' = DetailSummary(p)
                 /\ metaEl' = ClearChildren(metaEl) \o MetaNodes(p)
                 /\ bodyEl' = ClearChildren(bodyEl) \o BodyNodes(p)
                 /\ galleryEl' = ClearChildren(galleryEl) \o GalleryNodes(p)
                 /\ pcDetail' = "rendered"
                 /\ Wrote("loadProjectDetail",
                          {"title", "docTitle", "summary", "meta", "body",
                           "gallery"})

DetailJsonSettled ==
    /\ pcDetail = "json"
    /\ IF JsonFails(resp)
       THEN DetailFetchError
       ELSE DetailAfterFetch /\ UNCHANGED console
    /\ UNCHANGED <<pcProjects, fetches, grid, gridBefore>>
    /\ UNCHANGED <<phase, yearText, headerShadow, formWired>>
    /\ UNCHANGED formVars
    /\ UNCHANGED inputVars

(***************************************************************************)
(* The contact form's submit listener and its timer.                       *)
(***************************************************************************)
Submit(rawName, rawEmail, rawMessage) ==
    /\ formWired
    /\ submits < MaxSubmits
    /\ submits' = submits + 1
    /\ LET name == Trim(rawName)
           email == Trim(rawEmail)
           message == Trim(rawMessage)
       IN  IF name = <<>> \/ email = <<>> \/ message = <<>>
           THEN /\ alerts' = alerts + 1
                /\ UNCHANGED <<location, btnDisabled, btnLabel, timers>>
           ELSE /\ location' = Mailto(name, email, message)
                /\ btnDisabled' = TRUE
                /\ btnLabel' = TempLabel
                /\ timers' = Append(timers, btnLabel)
                /\ UNCHANGED alerts
    /\ UNCHANGED loaderVars
    /\ UNCHANGED <<phase, yearText, headerShadow, formWired>>
    /\ UNCHANGED inputVars

\* The callback given to setTimeout; equal delays expire in order.
TimerFires ==
    /\ timers # <<>>
    /\ btnDisabled' = FALSE
    /\ btnLabel' = Head(timers)
    /\ timers' = Tail(timers)
    /\ UNCHANGED <<alerts, location, submits>>
    /\ UNCHANGED loaderVars
    /\ UNCHANGED <<phase, yearText, headerShadow, formWired>>
    /\ UNCHANGED inputVars

SubmitForm == \E n \in FieldInputs, e \in FieldInputs, m \in FieldInputs : Submit(n, e, m)

(***************************************************************************)
(* A card's click and keydown listeners, and the load of the document the  *)
(* location then names.                                                    *)
(***************************************************************************)
\* The array renderProjects was called with: the card's p is its k-th entry.
RenderedProjects == IF pcProjects = "fallback" THEN <<FallbackProject>> ELSE catalog

\* What reaches a card: a click, or a keydown with this key.
CardEvents == {"click", "Enter", " ", "Tab"}

\* The listeners call go() on a click and on Enter or Space.
Activates(ev) == ev \in {"click", "Enter", " "}

ActivateCard(k, ev) ==
    /\ phase = "ready"
    /\ page.hasGrid
    /\ pcProjects \in {"rendered", "fallback", "threw"}
    /\ k \in 1..Len(grid)
    /\ Activates(ev)
    /\ location' = GoTarget(RenderedProjects[k])
    /\ query' = GoQuery(RenderedProjects[k])
    /\ activated' = k
    /\ UNCHANGED <<page, id, resp, catalog>>
    /\ UNCHANGED loaderVars
    /\ UNCHANGED <<btnDisabled, btnLabel, timers, alerts, submits>>
    /\ UNCHANGED <<phase, yearText, headerShadow, formWired>>

CardEvent == \E k \in 1..Len(grid), ev \in CardEvents : ActivateCard(k, ev)

HexValue(h) ==
    CASE h = "0" -> 0 [] h = "1" -> 1 [] h = "2" -> 2 [] h = "3" -> 3
      [] h = "4" -> 4 [] h = "5" -> 5 [] h = "6" -> 6 [] h = "7" -> 7
      [] h = "8" -> 8 [] h = "9" -> 9 [] h = "A" -> 10 [] h = "B" -> 11
      [] h = "C" -> 12 [] h = "D" -> 13 [] h = "E" -> 14 [] h = "F" -> 15

\* The ASCII character with this code, among those the model encodes.
CharOfCode(n) ==
    CASE n = 10 -> "\n" [] n = 32 -> " " [] n = 37 -> "%" [] n = 38 -> "&"
      [] n = 58 -> ":" [] n = 61 -> "=" [] n = 63 -> "?" [] n = 64 -> "@"

RECURSIVE PercentDecode(_)
\* getParam('id') on the query's value: every %XX becomes its character.
PercentDecode(cs) ==
    IF cs = <<>> THEN <<>>
    ELSE IF Head(cs) = "%" /\ Len(cs) >= 3
    THEN <<CharOfCode(16 * HexValue(cs[2]) + HexValue(cs[3]))>>
         \o PercentDecode(SubSeq(cs, 4, Len(cs)))
    ELSE <<Head(cs)>> \o PercentDecode(Tail(cs))

\* The browser leaves index.html for the document the location names:
\* project.html, in its state before the script runs, with the id of the
\* query; projects.json is the same file as before.
Navigate ==
    /\ page.hasGrid
    /\ activated > 0
    /\ page' = ProjectPage
    /\ id' = <<PercentDecode(query)>>
    /\ phase' = "loading"
    /\ pcProjects' = "idle"
    /\ pcDetail' = "idle"
    /\ fetches' = [l \in Loaders |-> 0]
    /\ written' = [l \in Loaders |-> {}]
    /\ console' = <<>>
    /\ grid' = <<>>
    /\ gridBefore' = <<>>
    /\ titleEl' = StaticText
    /\ summaryEl' = StaticText
    /\ metaEl' = <<StaticMeta>>
    /\ bodyEl' = <<StaticPara>>
    /\ galleryEl' = <<StaticImage>>
    /\ docTitle' = StaticText
    /\ yearText' = StaticText
    /\ headerShadow' = ""
    /\ formWired' = FALSE
    /\ btnDisabled' = FALSE
    /\ btnLabel' = OriginalLabel
    /\ timers' = <<>>
    /\ alerts' = 0
    /\ submits' = 0
    /\ UNCHANGED <<resp, catalog, location, query, activated>>

Next ==
    \/ CardEvent
    \/ Navigate
    \/ DOMContentLoaded
    \/ ProjectsFetchSettled
    \/ ProjectsJsonSettled
    \/ DetailFetchSettled
    \/ DetailJsonSettled
    \/ SubmitForm
    \/ TimerFires

Spec == Init /\ [][Next]_vars

(***************************************************************************)
(* renderProjects called again and again on the landing page's grid, with  *)
(* any array; catalog records the argument of the latest call.             *)
(***************************************************************************)
RenderEntries == {NullEntry, Blank, Rec(<<"a">>, "A"), Rec(<<"a">>, "B")}

RenderCatalogs == SeqsUpTo(RenderEntries, MaxCatalog)

InitRender == Init /\ page = IndexPage /\ resp = "array" /\ catalog = <<>>

RenderCall(projects) ==
    LET r == renderProjects(Payload("array", projects), grid)
    IN  /\ grid' = r.grid
        /\ gridBefore' = grid
        /\ catalog' = projects
        /\ pcProjects' = IF r.threw THEN "threw" ELSE "rendered"
        /\ Wrote("loadProjects", {"grid"})
        /\ UNCHANGED <<query, activated>>
        /\ UNCHANGED <<page, id, resp, phase, pcDetail, fetches, console,
                       titleEl, summaryEl, metaEl, bodyEl, galleryEl,
                       docTitle, yearText, headerShadow, formWired>>
        /\ UNCHANGED formVars

NextRender == \E projects \in RenderCatalogs : RenderCall(projects)

SpecRender == InitRender /\ [][NextRender]_vars

(***************************************************************************)
(* Properties.                                                             *)
(***************************************************************************)
\* A loader has run to its end (returned, or rejected its promise).
Settled(pc) == pc \notin {"idle", "fetch", "json"}

DetailContainers == {"meta", "body", "gallery"}

\* The slug of an entry as a string: empty when the field is absent.
SlugText(x) == IF x.slug = <<>> THEN <<>> ELSE x.slug[1]

\* The catalog's records whose slug is exactly the string i.
MatchesOf(i) ==
    {k \in 1..Len(catalog) : catalog[k].kind = "object" /\ SlugText(catalog[k]) = i}

FirstOf(S) == CHOOSE k \in S : \A j \in S : k <= j

\* The payload has a wrong shape: no array, or an array with a null entry.
WrongShape ==
    \/ resp = "not_array"
    \/ resp = "array" /\ \E k \in 1..Len(catalog) : catalog[k].kind = "null"

\* C1: when the detail container exists, loadProjectDetail ends in exactly
\* one of four outcomes, the first applicable one: no id -> the
\* 'Project not specified' texts, with no fetch and meta, body and gallery
\* untouched; the fetch fails -> the 'Error loading project' texts; no
\* record's slug equals the id -> the 'Project not found' texts, the summary
\* containing the id; otherwise the full render.  In the first three, meta,
\* body and gallery are never written.
C1_FourOutcomes ==
    (page.hasArticle /\ Settled(pcDetail)) =>
        /\ pcDetail \in {"no_id", "fetch_error", "not_found", "rendered"}
        /\ pcDetail = "no_id" <=> ~TruthyChars(id)
        /\ pcDetail = "no_id" =>
              /\ titleEl = "Project not specified"
              /\ summaryEl = "Missing ?id=" \o Ellipsis \o " in the URL."
              /\ fetches.loadProjectDetail = 0
        /\ pcDetail = "fetch_error" =>
              /\ titleEl = "Error loading project"
              /\ summaryEl = "Could not fetch projects.json."
        /\ pcDetail = "not_found" =>
              /\ MatchesOf(id[1]) = {}
              /\ titleEl = "Project not found"
              /\ summaryEl = "No project with id=\"" \o Join(id[1]) \o "\"."
        /\ pcDetail = "rendered" =>
              /\ MatchesOf(id[1]) # {}
              /\ DetailContainers \subseteq written.loadProjectDetail
        /\ pcDetail # "rendered" =>
              /\ written.loadProjectDetail \cap DetailContainers = {}
              /\ metaEl = <<StaticMeta>>
              /\ bodyEl = <<StaticPara>>
              /\ galleryEl = <<StaticImage>>

\* C2: on the detail page every catalog failure (a status that is not a
\* success, a payload that is no JSON, or a JSON payload of a wrong shape:
\* no array, or an array holding null) never throws out of
\* loadProjectDetail and leaves the title 'Error loading project' and the
\* summary 'Could not fetch projects.json.'.
C2_FailureShowsError ==
    (/\ page.hasArticle
     /\ TruthyChars(id)
     /\ Settled(pcDetail)
     /\ (FetchFails(resp) \/ JsonFails(resp) \/ WrongShape)) =>
        /\ pcDetail # "threw"
        /\ titleEl = "Error loading project"
        /\ summaryEl = "Could not fetch projects.json."

\* C3: on the landing page, when the fetch fails (the request is rejected,
\* the status is not a success, or the payload does not parse), loadProjects
\* does not propagate the error: it logs a warning and renders exactly one
\* card, built from the placeholder record (title 'Sample Project', slug
\* 'sample-project', no cover image).
C3_LandingFallback ==
    (/\ page.hasGrid
     /\ Settled(pcProjects)
     /\ (FetchFails(resp) \/ JsonFails(resp))) =>
        /\ pcProjects = "fallback"
        /\ console = <<"Using fallback projects:">>
        /\ Len(grid) = 1
        /\ grid[1].title = "Sample Project"
        /\ grid[1].go = "project.html?id=sample-project"
        /\ grid[1].cover = <<>>
        /\ grid[1].desc = "Replace projects.json to populate real projects."
        /\ grid[1].tags = <<"demo", "starter">>

C3_Witness ==
    /\ pcProjects = "fallback"
    /\ resp = "http_error"
    /\ Len(grid) = 1
    /\ grid[1].title = "Sample Project"

\* The record the detail page shows: the first one whose slug is the id.
Shown == catalog[FirstOf(MatchesOf(id[1]))]

Present(o) == o # <<>>
NonEmpty(o) == o # <<>> /\ o[1] # ""

\* C4 as stated: the body comes from exactly one branch, by strict
\* priority over present and absent fields: body an array (also an empty
\* one) -> one paragraph per entry, in order; else bodyHtml present -> that
\* markup alone; else long present -> one paragraph; else description
\* present -> one paragraph; else nothing.  Fields of lower-priority
\* branches never contribute.  (A branch whose text is empty may leave the
\* body empty.)
C4_BodyByPresence ==
    pcDetail = "rendered" =>
        LET p == Shown
            chosen ==
              IF p.body.kind = "array"
              THEN [k \in 1..Len(p.body.items) |-> [tag |-> "p", text |-> p.body.items[k]]]
              ELSE IF Present(p.bodyHtml)
              THEN <<[tag |-> "html", text |-> p.bodyHtml[1]]>>
              ELSE IF Present(p.long) THEN <<[tag |-> "p", text |-> p.long[1]]>>
              ELSE IF Present(p.description)
              THEN <<[tag |-> "p", text |-> p.description[1]]>>
              ELSE <<>>
        IN  \/ bodyEl = chosen
            \/ /\ bodyEl = <<>>
               /\ p.body.kind # "array"
               /\ Len(chosen) = 1
               /\ chosen[1].text = ""

\* C4, amended: the same priority chain, where a string field takes its
\* branch only when it is present and not the empty string; an empty
\* bodyHtml, long or description is passed over like an absent one.  What
\* the container held before is gone.
C4_BodyByPriority ==
    pcDetail = "rendered" =>
        LET p == Shown
        IN  bodyEl =
              IF p.body.kind = "array"
              THEN [k \in 1..Len(p.body.items) |-> [tag |-> "p", text |-> p.body.items[k]]]
              ELSE IF NonEmpty(p.bodyHtml)
              THEN <<[tag |-> "html", text |-> p.bodyHtml[1]]>>
              ELSE IF NonEmpty(p.long) THEN <<[tag |-> "p", text |-> p.long[1]]>>
              ELSE IF NonEmpty(p.description)
              THEN <<[tag |-> "p", text |-> p.description[1]]>>
              ELSE <<>>

C4_Witness ==
    /\ pcDetail = "rendered"
    /\ Shown.body.kind # "array"
    /\ NonEmpty(Shown.bodyHtml) /\ NonEmpty(Shown.long) /\ NonEmpty(Shown.description)
    /\ bodyEl = <<[tag |-> "html", text |-> Shown.bodyHtml[1]]>>

\* C5: resolving an id against a catalog of records shows the first record,
\* in catalog order, whose slug (the empty string when absent) equals the
\* id exactly, with no case folding or trimming; when none does, the result
\* is not-found.  A later record with the same slug is never shown.
C5_FirstMatch ==
    (/\ page.hasArticle
     /\ TruthyChars(id)
     /\ Settled(pcDetail)
     /\ resp = "array"
     /\ ~WrongShape) =>
        IF MatchesOf(id[1]) = {}
        THEN pcDetail = "not_found" /\ titleEl = "Project not found"
        ELSE /\ pcDetail = "rendered"
             /\ titleEl = IF NonEmpty(Shown.title) THEN Shown.title[1]
                          ELSE "Untitled project"
             /\ summaryEl = IF NonEmpty(Shown.summary) THEN Shown.summary[1]
                            ELSE IF NonEmpty(Shown.description)
                            THEN Shown.description[1]
                            ELSE ""

C5_Witness ==
    /\ pcDetail = "rendered"
    /\ Len(catalog) = 2
    /\ MatchesOf(id[1]) = {1, 2}
    /\ catalog[1].title # catalog[2].title
    /\ titleEl = catalog[1].title[1]

\* C6 as stated: the detail page's title is record.title or, when the title
\* is missing, 'Untitled project', and the tab title is that same string
\* followed by the site suffix; a card's title is record.title or
\* 'Untitled'.  No rendered title is empty or 'undefined'.
C6_TabTitleIsTitle ==
    /\ pcDetail = "rendered" =>
          /\ titleEl = IF NonEmpty(Shown.title) THEN Shown.title[1]
                       ELSE "Untitled project"
          /\ docTitle = titleEl \o " " \o Bullet \o " My Portfolio"
          /\ titleEl \notin {"", "undefined"}
    /\ pcProjects = "rendered" =>
          \A k \in 1..Len(grid) :
              /\ grid[k].title = IF NonEmpty(catalog[k].title)
                                 THEN catalog[k].title[1] ELSE "Untitled"
              /\ grid[k].title \notin {"", "undefined"}

\* C6, amended: as stated, except that the tab title of a record with a
\* missing (or empty) title is 'Project' followed by the site suffix, not
\* 'Untitled project' followed by it.
C6_Titles ==
    /\ pcDetail = "rendered" =>
          /\ titleEl = IF NonEmpty(Shown.title) THEN Shown.title[1]
                       ELSE "Untitled project"
          /\ docTitle = (IF NonEmpty(Shown.title) THEN Shown.title[1] ELSE "Project")
                        \o " " \o Bullet \o " My Portfolio"
          /\ titleEl \notin {"", "undefined"}
          /\ docTitle \notin {" " \o Bullet \o " My Portfolio",
                              "undefined " \o Bullet \o " My Portfolio"}
    /\ pcProjects = "rendered" =>
          \A k \in 1..Len(grid) :
              /\ grid[k].title = IF NonEmpty(catalog[k].title)
                                 THEN catalog[k].title[1] ELSE "Untitled"
              /\ grid[k].title \notin {"", "undefined"}

C6_Witness ==
    /\ pcDetail = "rendered"
    /\ Shown.title = <<>>
    /\ titleEl = "Untitled project"
    /\ docTitle = "Project " \o Bullet \o " My Portfolio"

\* An element of images has a src that resolves and is not empty.
HasSrc(it) == it.kind \in {"string", "object"} /\ NonEmpty(it.src)

\* C7: the gallery holds exactly one entry per element of images with a
\* resolvable non-empty src (a string, or an object's src), in input order;
\* elements with no src ({} or null) are skipped, and an absent or
\* non-array images gives an empty gallery.  An entry's alt is the object's
\* alt when present, otherwise the detail view's title followed by
\* ' image'.
C7_Gallery ==
    pcDetail = "rendered" =>
        LET imgs == IF Shown.images.kind = "array" THEN Shown.images.items ELSE <<>>
            kept == SelectSeq(imgs, HasSrc)
        IN  galleryEl =
              [k \in 1..Len(kept) |->
                  [href |-> kept[k].src[1],
                   src |-> kept[k].src[1],
                   alt |-> IF kept[k].kind = "object" /\ NonEmpty(kept[k].alt)
                           THEN kept[k].alt[1]
                           ELSE titleEl \o " image"]]

\* C8: for any array of records renderProjects first clears the grid and
\* then appends one card per record, in input order: afterwards the grid
\* holds as many cards as the array has records (none for an empty array),
\* the i-th card built from the i-th record, and a further call with
\* another array leaves only that array's cards.
C8_OneCardPerRecord ==
    pcProjects = "rendered" =>
        /\ Len(grid) = Len(catalog)
        /\ \A i \in 1..Len(grid) :
              /\ grid[i].title = IF NonEmpty(catalog[i].title)
                                 THEN catalog[i].title[1] ELSE "Untitled"
              /\ grid[i].desc = IF NonEmpty(catalog[i].description)
                                THEN catalog[i].description[1]
                                ELSE "No description yet."
              /\ grid[i] = Card(catalog[i])

\* A second call, on a grid that held the two cards of the first call.
C8_Witness ==
    /\ pcProjects = "rendered"
    /\ Len(gridBefore) = 2
    /\ StaticCard \notin {gridBefore[1], gridBefore[2]}
    /\ Len(catalog) = 1
    /\ Len(grid) = 1

DetailNodes == {"title", "summary", "meta", "body", "gallery", "docTitle"}

\* C9: in one page load a page performs at most one catalog fetch and
\* never fetches again after a failure; loadProjects fetches only when the
\* grid exists, loadProjectDetail only when the article exists and an id is
\* present; loadProjects assigns to the grid alone and loadProjectDetail to
\* the detail page's nodes alone (title, summary, meta, body, gallery and
\* the tab title).
C9_OneFetchOwnNodes ==
    /\ fetches.loadProjects + fetches.loadProjectDetail <= 1
    /\ fetches.loadProjects > 0 => page.hasGrid
    /\ fetches.loadProjectDetail > 0 => page.hasArticle /\ TruthyChars(id)
    /\ pcProjects \in {"fetch", "json"} => fetches.loadProjects = 1
    /\ pcDetail \in {"fetch", "json"} => fetches.loadProjectDetail = 1
    /\ written.loadProjects \subseteq {"grid"}
    /\ written.loadProjectDetail \subseteq DetailNodes
    /\ ~page.hasGrid => grid = <<>>
    /\ ~page.hasArticle =>
          /\ titleEl = "" /\ summaryEl = "" /\ docTitle = StaticText
          /\ metaEl = <<>> /\ bodyEl = <<>> /\ galleryEl = <<>>

\* A failed fetch on the detail page: one fetch was made, none follows.
C9_Witness ==
    /\ pcDetail = "fetch_error"
    /\ FetchFails(resp)
    /\ fetches.loadProjectDetail = 1
    /\ fetches.loadProjects = 0

UniqueSlugs ==
    \A i, j \in 1..Len(catalog) :
        i # j => SlugText(catalog[i]) # SlugText(catalog[j])

\* C11: for every record of a catalog in which no two records share a
\* slug, whether or not the record has a slug, activating its card (by
\* click, Enter or Space) navigates to an id that, percent-decoded and
\* looked up by the detail page in the same catalog, selects that record.
C11_CardOpensItsRecord ==
    (/\ page.hasArticle
     /\ activated > 0
     /\ resp = "array"
     /\ ~WrongShape
     /\ UniqueSlugs
     /\ Settled(pcDetail)) =>
        /\ pcDetail = "rendered"
        /\ FirstOf(MatchesOf(id[1])) = activated
        /\ titleEl = IF NonEmpty(catalog[activated].title)
                     THEN catalog[activated].title[1]
                     ELSE "Untitled project"

====
